---- MODULE Spec2Model ----
(***************************************************************************)
(* Model of schmitech/user-feedback-simulator:                             *)
(*   - lambda/index.py          count-then-fetch review sampler  (mode A)  *)
(*   - lambda/reviews/index.py  ratio-balanced review sampler    (mode C)  *)
(*   - lambda/sentiment/index.py sentiment enrichment handler              *)
(*   - data-loader/load_reviews.py bulk loader                             *)
(* The DynamoDB table behind the samplers is modelled by what a Query on   *)
(* its randomBucket index returns: Limit and the page size cap the rows    *)
(* EVALUATED, the filter expression is applied to the evaluated rows.      *)
(***************************************************************************)
EXTENDS Integers, Sequences, FiniteSets, TLC

VARIABLES
    mode,            \* program of this run: "A", "C", "load", "sentiment", "clean"
    env,             \* environment variables that are set
    event,           \* the API Gateway event of the sampler request
    table,           \* reviews table seen through the index: bucket -> rows in index order
    pc,              \* position of the running program
    batch_size,      \* lambda_handler: batch_size
    rating_filter,   \* lambda_handler: rating_filter
    department_filter, \* lambda_handler: department_filter
    buckets_to_try,  \* get_random_reviews: the buckets of the sample the loop has reached
    bucket,          \* index.py: the bucket of the running loop iteration (0: between two)
    total_in_bucket, \* index.py: total_in_bucket of the current bucket (NoCount: not set)
    start_key,       \* index.py: query_params['ExclusiveStartKey'] of the current bucket
    response,        \* index.py: the local `response` (unbound, or the last query response)
    all_items,       \* get_random_reviews: all_items
    positive_target, \* reviews/index.py: positive_target
    negative_target, \* reviews/index.py: negative_target
    http,            \* what the request ended with (statusCode 0: nothing yet)
    queries,         \* history: number of table.query calls issued
    log,             \* history: has a store query raised, has a bucket's item query returned
    csv,             \* loader: rows of reviews.csv still to process
    feedback,        \* sentiment handler: reviews of the batch still to process
    feedbackTable,   \* sentiment handler: items put into FEEDBACK_TABLE
    esIndex,         \* sentiment handler: documents indexed into Elasticsearch
    processed_reviews, \* sentiment handler: processed_reviews
    errors           \* sentiment handler: errors

samplerVars == <<event, batch_size, rating_filter, department_filter, buckets_to_try, bucket,
                 total_in_bucket, start_key, response, all_items, positive_target,
                 negative_target, queries, log>>
sentimentVars == <<feedback, feedbackTable, esIndex, processed_reviews, errors>>
vars == <<mode, env, table, pc, http, csv, samplerVars, sentimentVars>>

(***************************************************************************)
(* Program constants                                                       *)
(***************************************************************************)
NumBuckets == 10
BucketsA == 3
BucketsC == 5
MaxBatch == 50
DefaultBatch == 20
PositiveMin == 4
SkipChunk == 100

(***************************************************************************)
(* Bounds of the model                                                     *)
(***************************************************************************)
MaxRows == 5          \* rows of a store of the general specification
MaxSpread == 3        \* buckets such a store spreads its rows over
MaxReqBatch == 3      \* largest batchSize a request of the general specification asks
PageRows == 4         \* rows one Query page evaluates at most (DynamoDB's 1 MB page)
MaxShuffleLen == 3    \* results up to this length are enumerated in every order
MaxCsv == 2           \* rows of reviews.csv
MaxFeedback == 2      \* reviews of one sentiment batch
RaceRows == 3         \* rows of the store a sampler races with writers on
MaxRaceWrites == 1    \* rows put into or deleted from the table while a sampler runs

Buckets == 1..NumBuckets
Min(a, b) == IF a <= b THEN a ELSE b
Max(a, b) == IF a >= b THEN a ELSE b
Range(s) == {s[i] : i \in DOMAIN s}

(***************************************************************************)
(* Numbers as the samplers see them: boto3 hands a stored number over as a *)
(* Decimal, clean_item turns it into an int.                               *)
(***************************************************************************)
\* A value of Python type ty: v is its floor, tenths its fractional part in tenths.
Num(ty, n, tenths) == [ty |-> ty, v |-> n, tenths |-> tenths]
Dec(n) == Num("Decimal", n, 0)
Int_(n) == Num("int", n, 0)

\* int(float(x)): the fractional part is dropped, towards zero
IntOfFloat(x) == IF x.v < 0 /\ x.tenths > 0 THEN x.v + 1 ELSE x.v

\* A stored row as the item a query response carries.
Deserialize(row) ==
    [reviewId |-> row.reviewId,
     randomBucket |-> Dec(row.randomBucket),
     rating |-> Dec(row.rating),
     age |-> Dec(row.age),
     department |-> row.department]

\* Mutant: a Decimal becomes a float, and only a float becomes an int.
CleanField_Stepwise(x) ==
    IF x.ty = "Decimal" THEN Num("float", x.v, x.tenths)
    ELSE IF x.ty = "float" THEN Int_(IntOfFloat(x)) ELSE x

\* `if field in item and isinstance(item[field], (Decimal, float))`
CleanField(x) == IF x.ty \in {"Decimal", "float"} THEN Int_(IntOfFloat(x)) ELSE x

clean_item(item) ==
    [item EXCEPT !.age = CleanField(item.age),
                 !.rating = CleanField(item.rating),
                 !.randomBucket = CleanField(item.randomBucket)]

(***************************************************************************)
(* The store: Query on the randomBucket index                              *)
(***************************************************************************)
NoKey == [randomBucket |-> 0, reviewId |-> 0]        \* no ExclusiveStartKey / LastEvaluatedKey
NoneKey == [randomBucket |-> -1, reviewId |-> -1]    \* Python None given as the key
NoLimit == 0
NoCount == -1

KeyOf(row) == [randomBucket |-> row.randomBucket, reviewId |-> row.reviewId]

\* Mutant: the department condition is left out of the filter expression.
MatchesFilter_NoDept(row, rf, df) ==
    /\ (rf = "positive" => row.rating >= PositiveMin)
    /\ (rf = "negative" => row.rating < PositiveMin)

\* Mutant: the positive filter compares with 3 instead of 4.
MatchesFilter_Min3(row, rf, df) ==
    /\ (rf = "positive" => row.rating >= PositiveMin - 1)
    /\ (rf = "negative" => row.rating < PositiveMin)
    /\ (df # "all" => row.department = df)

\* filter_expressions joined by AND
MatchesFilter(row, rf, df) ==
    /\ (rf = "positive" => row.rating >= PositiveMin)
    /\ (rf = "negative" => row.rating < PositiveMin)
    /\ (df # "all" => row.department = df)

\* Position of the row a start key names in its bucket (0: from the first row).
KeyPos(rows, key) ==
    IF key = NoKey THEN 0
    ELSE IF \E i \in DOMAIN rows : rows[i].reviewId = key.reviewId
         THEN CHOOSE i \in DOMAIN rows : rows[i].reviewId = key.reviewId
         ELSE 0

\* A start key the service rejects: None, or a key of another bucket.
BadKey(b, key) == key # NoKey /\ key.randomBucket # b

\* table.query(**params): the rows after the start key are evaluated up to Limit and
\* up to one page; the filter is applied to the evaluated rows only.
Query(tbl, b, rf, df, limit, key) ==
    LET rows == tbl[b]
        from == KeyPos(rows, key)
        cap == IF limit = NoLimit THEN PageRows ELSE Min(limit, PageRows)
        n == Min(cap, Len(rows) - from)
        evaluated == SubSeq(rows, from + 1, from + n)
        matching == SelectSeq(evaluated, LAMBDA r : MatchesFilter(r, rf, df))
    IN  [bound |-> TRUE,
         Items |-> [i \in DOMAIN matching |-> Deserialize(matching[i])],
         Count |-> Len(matching),
         ScannedCount |-> n,
         LastEvaluatedKey |-> IF n = cap /\ n > 0 THEN KeyOf(rows[from + n]) ELSE NoKey]

\* table.query(**params) on the reviews table
TableQuery(b, params) == Query(table, b, params.rf, params.df, params.limit, params.key)

Unbound == [bound |-> FALSE, Items |-> <<>>, Count |-> 0, ScannedCount |-> 0,
            LastEvaluatedKey |-> NoKey]

(***************************************************************************)
(* Sets of rows, in every order or in index order                          *)
(***************************************************************************)
RECURSIVE Ascending(_)
Ascending(S) ==
    IF S = {} THEN <<>>
    ELSE LET m == CHOOSE x \in S : \A y \in S : x <= y
         IN  <<m>> \o Ascending(S \ {m})

\* Every sequence that lists each element of S once.
Orders(S) ==
    LET n == Cardinality(S)
    IN  {f \in [1..n -> S] : \A i, j \in 1..n : i # j => f[i] # f[j]}

\* The positions of s a random draw of k of them can select.
Draws(s, k) == {S \in SUBSET (DOMAIN s) : Cardinality(S) = k}

At(s, idx) == [i \in DOMAIN idx |-> s[idx[i]]]

\* random.sample(items, k) inside the bucket loop. The order of the drawn rows is
\* erased by the final random.shuffle, so a draw is given by the rows it selects.
random_sample(items, k) == {At(items, Ascending(S)) : S \in Draws(items, k)}

\* Mutant: the slice keeps one item too many.
ShuffleTruncate_OneMore(items, n) ==
    LET m == Min(n + 1, Len(items))
    IN  {At(items, o) : o \in UNION {Orders(S) : S \in Draws(items, m)}}

\* random.shuffle(all_items); all_items[:batch_size]
\* Every selection of min(batch_size, len) positions can end up in front; selections
\* of up to MaxShuffleLen rows are enumerated in every order, longer ones are
\* listed in the order of their positions.
ShuffleTruncate(items, n) ==
    LET m == Min(n, Len(items))
    IN  UNION {IF m <= MaxShuffleLen
               THEN {At(items, o) : o \in Orders(S)}
               ELSE {At(items, Ascending(S))} : S \in Draws(items, m)}

(***************************************************************************)
(* HTTP responses                                                          *)
(***************************************************************************)
CorsHeaders ==
    [ContentType |-> "application/json",
     AllowOrigin |-> "*",
     AllowHeaders |-> "Content-Type,X-Amz-Date,Authorization,X-Api-Key,X-Amz-Security-Token",
     AllowMethods |-> "POST,OPTIONS"]
NoHeaders == [ContentType |-> "", AllowOrigin |-> "", AllowHeaders |-> "", AllowMethods |-> ""]

Body(kind, message, reviews) ==
    [kind |-> kind, message |-> message, reviews |-> reviews, count |-> Len(reviews)]

create_response(status_code, body) ==
    [outcome |-> "response", statusCode |-> status_code, headers |-> CorsHeaders, body |-> body]

Pending == [outcome |-> "pending", statusCode |-> 0, headers |-> NoHeaders,
            body |-> Body("none", "", <<>>)]
\* The module could not be imported: the handler never ran and answered nothing.
InitError == [outcome |-> "init_error", statusCode |-> 0, headers |-> NoHeaders,
              body |-> Body("none", "", <<>>)]

(***************************************************************************)
(* Inputs: stores, environments, events                                    *)
(***************************************************************************)
RatingCycle == <<5, 2, 4, 3>>
DeptCycle == <<"Tops", "Tops", "Dresses", "Dresses", "Tops", "Dresses">>

\* Row i of a store of n rows spread round-robin over the first k buckets.
RowOf(i, k, off) ==
    [reviewId |-> i,
     randomBucket |-> ((i - 1) % k) + 1,
     rating |-> RatingCycle[((i - 1 + off) % Len(RatingCycle)) + 1],
     age |-> 30 + i,
     department |-> DeptCycle[((i - 1) % Len(DeptCycle)) + 1]]

StoreOf(n, k, off) ==
    [b \in Buckets |->
        LET ids == {i \in 1..n : ((i - 1) % k) + 1 = b}
        IN  At([i \in 1..n |-> RowOf(i, k, off)], Ascending(ids))]

EmptyStore == [b \in Buckets |-> <<>>]

Stores == {StoreOf(MaxRows, k, 0) : k \in 1..MaxSpread}

RequiredVars == {"TABLE_NAME", "TABLE_GSI"}

BodyKeys == {"batchSize", "ratingFilter", "departmentFilter"}

JsonBody(bs, rf, df) ==
    [kind |-> "json", keys |-> BodyKeys, batchSize |-> bs, ratingFilter |-> rf,
     departmentFilter |-> df]
\* The event carries no body, or one that is not JSON.
OtherBody(kind) ==
    [kind |-> kind, keys |-> {}, batchSize |-> 0, ratingFilter |-> "", departmentFilter |-> ""]

Post(bs, rf, df) == [httpMethod |-> "POST", body |-> JsonBody(bs, rf, df)]

Events ==
    {[httpMethod |-> "OPTIONS", body |-> b] :
        b \in {OtherBody("absent"), OtherBody("malformed"), JsonBody(1, "all", "all")}}
    \cup {[httpMethod |-> "POST", body |-> OtherBody(k)] : k \in {"absent", "malformed"}}
    \cup {[httpMethod |-> "POST", body |-> JsonBody(bs, rf, df)] :
            bs \in 0..MaxReqBatch, rf \in {"all", "positive", "negative"},
            df \in {"all", "Tops"}}
    \cup {[httpMethod |-> "POST", body |-> JsonBody(MaxBatch + 1, "all", "all")]}

\* body.get(key, default)
Get(body, key, default) ==
    IF key \in body.keys
    THEN CASE key = "batchSize" -> body.batchSize
           [] key = "ratingFilter" -> body.ratingFilter
           [] OTHER -> body.departmentFilter
    ELSE default

(***************************************************************************)
(* Initial states                                                          *)
(***************************************************************************)
SamplerIdle ==
    /\ batch_size = 0 /\ rating_filter = "" /\ department_filter = ""
    /\ buckets_to_try = {} /\ bucket = 0
    /\ total_in_bucket = NoCount /\ start_key = NoKey /\ response = Unbound
    /\ all_items = <<>> /\ positive_target = 0 /\ negative_target = 0
    /\ queries = 0 /\ log = [failed |-> FALSE, fetched |-> FALSE]

NoEvent == [httpMethod |-> "", body |-> OtherBody("absent")]

SentimentIdle ==
    /\ feedbackTable = <<>> /\ esIndex = <<>> /\ processed_reviews = <<>> /\ errors = <<>>

InitSampler(stores, events, envs) ==
    /\ mode \in {"A", "C"}
    /\ env \in envs
    /\ event \in events
    /\ table \in stores
    /\ pc = "start" /\ http = Pending
    /\ SamplerIdle
    /\ csv = <<>> /\ feedback = <<>> /\ SentimentIdle

(***************************************************************************)
(* The request handlers of the two samplers                                *)
(***************************************************************************)
Finish(r) ==
    /\ http' = r
    /\ pc' = "done"

ServerError == create_response(500, Body("error", "Internal server error", <<>>))
ConfigError == create_response(500, Body("error", "Lambda configuration error", <<>>))

\* min(body.get('batchSize', 20), 50)
ParseBatch(body) == Min(Get(body, "batchSize", DefaultBatch), MaxBatch)

ParseRequest ==
    /\ batch_size' = ParseBatch(event.body)
    /\ rating_filter' = Get(event.body, "ratingFilter", "all")
    /\ department_filter' = Get(event.body, "departmentFilter", "all")

\* validate_environment(): the required variables that are missing
validate_environment(e) == RequiredVars \ e

\* lambda/index.py. The module reads os.environ['TABLE_NAME'] when it is imported,
\* and os.environ['TABLE_GSI'] when the bucket loop builds its first query.
lambda_handler_A ==
    /\ mode = "A" /\ pc = "start"
    /\ IF "TABLE_NAME" \notin env
       THEN /\ Finish(InitError)
            /\ UNCHANGED <<batch_size, rating_filter, department_filter>>
       ELSE IF event.httpMethod = "OPTIONS"
       THEN /\ Finish(create_response(200, Body("empty", "", <<>>)))
            /\ UNCHANGED <<batch_size, rating_filter, department_filter>>
       ELSE IF event.body.kind = "malformed"
       THEN /\ Finish(ServerError)
            /\ UNCHANGED <<batch_size, rating_filter, department_filter>>
       ELSE IF "TABLE_GSI" \notin env
       THEN /\ Finish(ServerError)
            /\ ParseRequest
       ELSE /\ ParseRequest
            /\ pc' = "position"
            /\ http' = http
    /\ UNCHANGED <<mode, env, event, table, csv, buckets_to_try, bucket, total_in_bucket,
                   start_key, response, all_items, positive_target, negative_target,
                   queries, log, sentimentVars>>

\* lambda/reviews/index.py
lambda_handler_C ==
    /\ mode = "C" /\ pc = "start"
    /\ IF "TABLE_NAME" \notin env
       THEN /\ Finish(InitError)
            /\ UNCHANGED <<batch_size, rating_filter, department_filter,
                           positive_target, negative_target>>
       ELSE IF validate_environment(env) # {}
       THEN /\ Finish(ConfigError)
            /\ UNCHANGED <<batch_size, rating_filter, department_filter,
                           positive_target, negative_target>>
       ELSE IF event.httpMethod = "OPTIONS"
       THEN /\ Finish(create_response(200, Body("empty", "", <<>>)))
            /\ UNCHANGED <<batch_size, rating_filter, department_filter,
                           positive_target, negative_target>>
       ELSE IF event.body.kind = "malformed"
       THEN /\ Finish(ServerError)
            /\ UNCHANGED <<batch_size, rating_filter, department_filter,
                           positive_target, negative_target>>
       ELSE /\ ParseRequest
            /\ IF rating_filter' = "all"
               THEN /\ negative_target' = batch_size' \div 2
                    /\ positive_target' = batch_size' - (batch_size' \div 2)
               ELSE /\ negative_target' = IF rating_filter' = "negative" THEN batch_size' ELSE 0
                    /\ positive_target' = IF rating_filter' = "positive" THEN batch_size' ELSE 0
            /\ pc' = "query"
            /\ http' = http
    /\ UNCHANGED <<mode, env, event, table, csv, buckets_to_try, bucket, total_in_bucket,
                   start_key, response, all_items, queries, log, sentimentVars>>

(***************************************************************************)
(* lambda/index.py: the bucket loop of get_random_reviews                  *)
(***************************************************************************)
items_per_bucket == (batch_size \div BucketsA) + 1

\* Mutant: the queries of a bucket carry no filter expression.
query_params_Unfiltered ==
    [rf |-> "all", df |-> "all", limit |-> items_per_bucket, key |-> start_key]

\* query_params of the current iteration (lines 45-68, 93)
query_params ==
    [rf |-> rating_filter, df |-> department_filter, limit |-> items_per_bucket,
     key |-> start_key]

\* Mutant: the count is taken without Limit, over the whole page.
count_params_NoLimit == [query_params EXCEPT !.limit = NoLimit, !.key = NoKey]

\* Mutant: the count evaluates one row only.
count_params_One == [query_params EXCEPT !.limit = 1, !.key = NoKey]

\* count_params = query_params.copy() with Select = 'COUNT', before any start key
count_params == [query_params EXCEPT !.key = NoKey]

\* scan_params = query_params.copy() with Limit = 1, continued at key
scan_params(key) == [query_params EXCEPT !.limit = 1, !.key = key]

\* Mutant: the rows of a bucket whose count raised are not taken.
FetchResult_NeedsCount(ok, r) ==
    IF ok /\ total_in_bucket # NoCount THEN all_items \o r.Items ELSE all_items

\* Mutant: a failing fetch loses what the buckets before it supplied.
FetchResult_Drop(ok, r) == IF ok THEN all_items \o r.Items ELSE <<>>

\* all_items after the try/except around the fetch (lines 100-105)
FetchResult(ok, r) == IF ok THEN all_items \o r.Items ELSE all_items

\* Mutant: the buckets are drawn with replacement.
NextBuckets_Replace == Buckets

\* The buckets the loop can take next: random.sample draws without replacement.
NextBuckets == Buckets \ buckets_to_try

\* The skip walk: skip_items // 100 queries of one row each, each continuing at the
\* key the one before returned. i is the iteration, failAt the iteration whose query
\* raises (0: none does).
RECURSIVE SkipWalk(_, _, _, _, _, _, _)
SkipWalk(b, n, failAt, resp, key, i, issued) ==
    IF i > n THEN [response |-> resp, raised |-> FALSE, issued |-> issued]
    ELSE IF i = failAt THEN [response |-> resp, raised |-> TRUE, issued |-> issued + 1]
    ELSE LET r == TableQuery(b, scan_params(key))
         IN  IF r.LastEvaluatedKey # NoKey
             THEN SkipWalk(b, n, failAt, r, r.LastEvaluatedKey, i + 1, issued + 1)
             ELSE [response |-> r, raised |-> FALSE, issued |-> issued + 1]

\* query_params['ExclusiveStartKey'] = response.get('LastEvaluatedKey')
StartKeyAfter(w) ==
    IF w.raised \/ ~w.response.bound THEN NoKey
    ELSE IF w.response.LastEvaluatedKey = NoKey THEN NoneKey
    ELSE w.response.LastEvaluatedKey

\* The loop takes its next bucket, counts it and positions the fetch (lines 43-97).
\* The buckets of random.sample are drawn one by one as the loop reaches them.
PositionBucket ==
    /\ mode = "A" /\ pc = "position"
    /\ \E b \in NextBuckets, count_ok \in BOOLEAN :
         LET count_result == TableQuery(b, count_params)
         IN  /\ bucket' = b
             /\ buckets_to_try' = buckets_to_try \cup {b}
             /\ IF ~count_ok
                THEN /\ total_in_bucket' = NoCount
                     /\ queries' = queries + 1
                     /\ start_key' = NoKey
                     /\ response' = response
                     /\ log' = [log EXCEPT !.failed = TRUE]
                ELSE /\ total_in_bucket' = count_result.Count
                     /\ IF count_result.Count > 0
                        THEN \E skip_items \in 0..Max(0, count_result.Count - items_per_bucket) :
                               IF skip_items > 0
                               THEN \E failAt \in 0..(skip_items \div SkipChunk) :
                                      LET w == SkipWalk(b, skip_items \div SkipChunk, failAt,
                                                        response, NoKey, 1, 0)
                                      IN  /\ response' = w.response
                                          /\ queries' = queries + 1 + w.issued
                                          /\ start_key' = StartKeyAfter(w)
                                          /\ log' = [log EXCEPT !.failed = @ \/ w.raised]
                               ELSE /\ queries' = queries + 1
                                    /\ start_key' = NoKey
                                    /\ response' = response
                                    /\ log' = log
                        ELSE /\ queries' = queries + 1
                             /\ start_key' = NoKey
                             /\ response' = response
                             /\ log' = log
    /\ pc' = "fetch"
    /\ UNCHANGED <<mode, env, event, table, csv, http, batch_size, rating_filter,
                   department_filter, all_items, positive_target, negative_target,
                   sentimentVars>>

\* The fetch of the current bucket (lines 99-105).
FetchBucket ==
    /\ mode = "A" /\ pc = "fetch"
    /\ \E query_ok \in BOOLEAN :
         LET r == TableQuery(bucket, query_params)
             ok == query_ok /\ ~BadKey(bucket, start_key)
         IN  /\ queries' = queries + 1
             /\ response' = IF ok THEN r ELSE response
             /\ all_items' = FetchResult(ok, r)
             /\ log' = [failed |-> log.failed \/ ~ok, fetched |-> log.fetched \/ ok]
    \* the next iteration rebuilds query_params and reassigns bucket and total_in_bucket
    /\ bucket' = 0 /\ total_in_bucket' = NoCount /\ start_key' = NoKey
    /\ pc' = IF Cardinality(buckets_to_try) = BucketsA THEN "assemble" ELSE "position"
    /\ UNCHANGED <<mode, env, event, table, csv, http, batch_size, rating_filter,
                   department_filter, buckets_to_try, positive_target, negative_target,
                   sentimentVars>>

(***************************************************************************)
(* lambda/reviews/index.py: the bucket loop of get_random_reviews          *)
(***************************************************************************)
IsPositive(item) == item.rating.v >= PositiveMin
IsNegative(item) == item.rating.v < PositiveMin

\* What a bucket adds of one rating class, given the class's remaining target.
ClassDraws(class_items, target) ==
    IF Len(class_items) > 0 /\ target > 0
    THEN random_sample(class_items, Min(Len(class_items), target))
    ELSE {<<>>}

\* Mutant: the remaining target is reduced without the floor at 0.
ClassTarget_NoFloor(class_items, target) ==
    IF Len(class_items) > 0 /\ target > 0 THEN target - Len(class_items) ELSE target

\* Mutant: the remaining target is not reduced by what the bucket supplied.
ClassTarget_Keep(class_items, target) == target

ClassTarget(class_items, target) ==
    IF Len(class_items) > 0 /\ target > 0
    THEN Max(0, target - Len(class_items))
    ELSE target

\* query_params of the current iteration (lines 55-77): no Limit, no start key
query_params_C ==
    [rf |-> rating_filter, df |-> department_filter, limit |-> NoLimit, key |-> NoKey]

\* Mutant: the loop never stops before its last bucket.
EnoughItems_Never(items) == FALSE

\* `if len(all_items) >= batch_size: break` (lines 104-105)
EnoughItems(items) == Len(items) >= batch_size

QueryBucket ==
    /\ mode = "C" /\ pc = "query"
    /\ \E b \in NextBuckets, query_ok \in BOOLEAN :
         LET items == TableQuery(b, query_params_C).Items
             positive_items == SelectSeq(items, IsPositive)
             negative_items == SelectSeq(items, IsNegative)
         IN  /\ buckets_to_try' = buckets_to_try \cup {b}
             /\ queries' = queries + 1
             /\ IF ~query_ok
                THEN /\ UNCHANGED <<all_items, positive_target, negative_target>>
                     /\ pc' = IF Cardinality(buckets_to_try') = BucketsC
                              THEN "assemble" ELSE "query"
                ELSE /\ IF rating_filter = "all"
                        THEN /\ \E ps \in ClassDraws(positive_items, positive_target),
                                   ns \in ClassDraws(negative_items, negative_target) :
                                  all_items' = all_items \o ps \o ns
                             /\ positive_target' = ClassTarget(positive_items, positive_target)
                             /\ negative_target' = ClassTarget(negative_items, negative_target)
                        ELSE /\ all_items' = all_items \o items
                             /\ UNCHANGED <<positive_target, negative_target>>
                     /\ pc' = IF \/ EnoughItems(all_items')
                                 \/ Cardinality(buckets_to_try') = BucketsC
                              THEN "assemble" ELSE "query"
             /\ log' = [failed |-> log.failed \/ ~query_ok,
                         fetched |-> log.fetched \/ query_ok]
    /\ UNCHANGED <<mode, env, event, table, csv, http, batch_size, rating_filter,
                   department_filter, bucket, total_in_bucket, start_key, response,
                   sentimentVars>>

(***************************************************************************)
(* Both samplers: shuffle, trim, clean, answer (lines 107-109, 143-157)    *)
(***************************************************************************)
Assemble ==
    /\ mode \in {"A", "C"} /\ pc = "assemble"
    /\ \E items \in ShuffleTruncate(all_items, batch_size) :
         Finish(create_response(200,
             Body("reviews", "", [i \in DOMAIN items |-> clean_item(items[i])])))
    /\ UNCHANGED <<mode, env, table, csv, samplerVars, sentimentVars>>

NextSampler ==
    \/ lambda_handler_A
    \/ lambda_handler_C
    \/ PositionBucket
    \/ FetchBucket
    \/ QueryBucket
    \/ Assemble

(***************************************************************************)
(* data-loader/load_reviews.py: load_reviews_to_dynamodb                   *)
(***************************************************************************)
CsvRow(kind, rating, department) == [kind |-> kind, rating |-> rating, department |-> department]

\* A row is_valid_review accepts, one it rejects, one whose item cannot be built.
CsvRows == {CsvRow("valid", 5, "Tops"), CsvRow("valid", 0, ""), CsvRow("invalid", 5, "Tops"),
            CsvRow("error", 5, "Tops")}

CsvFiles == UNION {[1..n -> CsvRows] : n \in 0..MaxCsv}

StoredRows(tbl) == UNION {Range(tbl[b]) : b \in Buckets}

\* str(uuid.uuid4()): an id no stored row has
FreshId(tbl) == Cardinality(StoredRows(tbl)) + 1

InsertAt(s, pos, x) == SubSeq(s, 1, pos) \o <<x>> \o SubSeq(s, pos + 1, Len(s))

\* verify_aws_credentials, verify_dynamodb_access, pd.read_csv, get_aws_session
LoadStart ==
    /\ mode = "load" /\ pc = "start"
    /\ \E ok \in BOOLEAN : pc' = IF ok THEN "loading" ELSE "done"
    /\ UNCHANGED <<mode, env, table, http, csv, samplerVars, sentimentVars>>

\* One iteration of `for index, row in df.iterrows()`. A valid row is put with
\* randomBucket = random.randint(1, 10); where the index lists it among the rows of
\* its bucket is not the loader's choice.
LoadRow ==
    /\ mode = "load" /\ pc = "loading" /\ csv # <<>>
    /\ LET row == Head(csv)
       IN  IF row.kind = "valid"
           THEN \E randomBucket \in 1..NumBuckets, pos \in 0..MaxCsv, write_ok \in BOOLEAN :
                  /\ pos <= Len(table[randomBucket])
                  /\ IF write_ok
                     THEN /\ table' = [table EXCEPT ![randomBucket] =
                                 InsertAt(@, pos, [reviewId |-> FreshId(table),
                                                   randomBucket |-> randomBucket,
                                                   rating |-> row.rating,
                                                   age |-> 30,
                                                   department |-> row.department])]
                          /\ csv' = Tail(csv)
                          /\ pc' = pc
                     ELSE \* "Error during batch writing": the load ends
                          /\ table' = table
                          /\ csv' = <<>>
                          /\ pc' = "done"
           ELSE /\ table' = table
                /\ csv' = Tail(csv)
                /\ pc' = pc
    /\ UNCHANGED <<mode, env, http, samplerVars, sentimentVars>>

LoadEnd ==
    /\ mode = "load" /\ pc = "loading" /\ csv = <<>>
    /\ pc' = "done"
    /\ UNCHANGED <<mode, env, table, http, csv, samplerVars, sentimentVars>>

(***************************************************************************)
(* lambda/sentiment/index.py: handler and process_feedback                 *)
(***************************************************************************)
NoneValue == Num("None", 0, 0)

FeedbackIds == {1, 2}

\* A review of the request: randomBucket is what the caller sent, if anything.
FeedbackReviews ==
    {[reviewId |-> i, hasText |-> t, randomBucket |-> rb] :
        i \in FeedbackIds, t \in BOOLEAN,
        rb \in {NoneValue, Int_(3), Int_(NumBuckets + 1)}}

FeedbackBatches == UNION {[1..n -> FeedbackReviews] : n \in 0..MaxFeedback}

\* process_feedback(review_data): the enriched item
process_feedback(review_data) ==
    [reviewId |-> review_data.reviewId,
     randomBucket |-> review_data.randomBucket,
     source |-> "review-analysis"]

\* handler, up to the review loop
SentimentStart ==
    /\ mode = "sentiment" /\ pc = "start"
    /\ IF event.body.kind = "malformed"
       THEN /\ http' = [outcome |-> "response", statusCode |-> 500, headers |-> NoHeaders,
                        body |-> [kind |-> "error", processedCount |-> 0, errors |-> <<>>]]
            /\ pc' = "done"
       ELSE IF event.body.kind = "invalid"
       THEN /\ http' = [outcome |-> "response", statusCode |-> 400, headers |-> NoHeaders,
                        body |-> [kind |-> "invalid", processedCount |-> 0, errors |-> <<>>]]
            /\ pc' = "done"
       ELSE /\ http' = http
            /\ pc' = "reviews"
    /\ UNCHANGED <<mode, env, table, csv, samplerVars, sentimentVars>>

\* Mutant: the time check skips the review and the loop goes on.
AfterTimeout_Continue(reviews) == Tail(reviews)

\* `break` (line 172): no review of the batch is left to iterate over
AfterTimeout(reviews) == <<>>

\* The annotation of lines 168-171
Interrupted == [kind |-> "timeout", reviewId |-> 0]

\* One iteration of `for review in body['reviews']`. stage is the call that raises:
\* "comprehend", "put", "index", or "none".
ProcessReview ==
    /\ mode = "sentiment" /\ pc = "reviews" /\ feedback # <<>>
    /\ \E time_low \in BOOLEAN, stage \in {"none", "comprehend", "put", "index"} :
         LET review == Head(feedback)
             processed_review == process_feedback(review)
         IN  IF time_low
             THEN /\ errors' = Append(errors, Interrupted)
                  /\ feedback' = AfterTimeout(feedback)
                  /\ UNCHANGED <<feedbackTable, esIndex, processed_reviews>>
             ELSE IF ~review.hasText
             THEN /\ feedback' = Tail(feedback)
                  /\ UNCHANGED <<feedbackTable, esIndex, processed_reviews, errors>>
             ELSE /\ feedback' = Tail(feedback)
                  /\ feedbackTable' = IF stage \in {"none", "index"}
                                      THEN Append(feedbackTable, processed_review)
                                      ELSE feedbackTable
                  /\ esIndex' = IF stage = "none"
                                THEN Append(esIndex, processed_review) ELSE esIndex
                  /\ processed_reviews' = IF stage = "none"
                                          THEN Append(processed_reviews, processed_review)
                                          ELSE processed_reviews
                  /\ errors' = IF stage = "none" THEN errors
                               ELSE Append(errors, [kind |-> "review",
                                                    reviewId |-> review.reviewId])
    /\ UNCHANGED <<mode, env, table, pc, http, csv, samplerVars>>

\* handler, after the review loop
SentimentRespond ==
    /\ mode = "sentiment" /\ pc = "reviews" /\ feedback = <<>>
    /\ http' = [outcome |-> "response",
                statusCode |-> IF errors = <<>> THEN 200 ELSE 207,
                headers |-> NoHeaders,
                body |-> [kind |-> "batch", processedCount |-> Len(processed_reviews),
                          errors |-> errors]]
    /\ pc' = "done"
    /\ UNCHANGED <<mode, env, table, csv, samplerVars, sentimentVars>>

(***************************************************************************)
(* Specifications                                                          *)
(***************************************************************************)
InitGeneral == InitSampler(Stores, Events, SUBSET RequiredVars)

InitLoad ==
    /\ mode = "load" /\ env = {} /\ event = NoEvent
    /\ table = EmptyStore
    /\ pc = "start" /\ http = Pending
    /\ SamplerIdle
    /\ csv \in CsvFiles
    /\ feedback = <<>> /\ SentimentIdle

InitSentiment ==
    /\ mode = "sentiment" /\ env = {}
    /\ event \in {[httpMethod |-> "POST", body |-> OtherBody(k)] :
                    k \in {"reviews", "invalid", "malformed"}}
    /\ table = EmptyStore
    /\ pc = "start" /\ http = Pending
    /\ SamplerIdle
    /\ csv = <<>>
    /\ feedback \in FeedbackBatches
    /\ SentimentIdle

Init == InitGeneral \/ InitLoad \/ InitSentiment

Next ==
    \/ NextSampler
    \/ LoadStart
    \/ LoadRow
    \/ LoadEnd
    \/ SentimentStart
    \/ ProcessReview
    \/ SentimentRespond

Spec == Init /\ [][Next]_vars

(***************************************************************************)
(* lambda/index.py running while the loader puts rows into the table and   *)
(* empty-dynamodb-table.py deletes rows from it                            *)
(***************************************************************************)
InitRace ==
    /\ InitSampler({StoreOf(RaceRows, 2, 0)},
                   {Post(3, "negative", "all")}, {RequiredVars})
    /\ mode = "A"

\* str(uuid.uuid4()): an id no row has or had. The rows put beside the sampler
\* are numbered after the rows of the store it started on.
NewId(tbl) == RaceRows + 1 + Cardinality({r \in StoredRows(tbl) : r.reviewId > RaceRows})

\* The puts and deletes the table has seen since the sampler started.
RaceWrites(tbl) ==
    Cardinality({r \in StoredRows(tbl) : r.reviewId > RaceRows})
    + (RaceRows - Cardinality({r \in StoredRows(tbl) : r.reviewId <= RaceRows}))

\* batch.put_item(Item=review_item) of a loader running beside the sampler. The
\* buckets from the third on are all empty: a put into the third stands for a put
\* into any of them.
ConcurrentPut ==
    /\ mode = "A" /\ pc \in {"position", "fetch"}
    /\ RaceWrites(table) < MaxRaceWrites
    /\ \E randomBucket \in 1..3, rating \in {0, 5} :
         \E pos \in 0..Len(table[randomBucket]) :
            table' = [table EXCEPT ![randomBucket] =
                        InsertAt(@, pos, [reviewId |-> NewId(table),
                                          randomBucket |-> randomBucket,
                                          rating |-> rating,
                                          age |-> 30,
                                          department |-> "Tops"])]
    /\ UNCHANGED <<mode, env, pc, http, csv, samplerVars, sentimentVars>>

\* batch.delete_item(Key=key_dict) of empty-dynamodb-table.py beside the sampler,
\* for a row its scan found before the sampler started
ConcurrentDelete ==
    /\ mode = "A" /\ pc \in {"position", "fetch"}
    /\ RaceWrites(table) < MaxRaceWrites
    /\ \E b \in Buckets : \E i \in DOMAIN table[b] :
         /\ table[b][i].reviewId <= RaceRows
         /\ table' = [table EXCEPT ![b] = SubSeq(@, 1, i - 1) \o SubSeq(@, i + 1, Len(@))]
    /\ UNCHANGED <<mode, env, pc, http, csv, samplerVars, sentimentVars>>

NextRace ==
    \/ lambda_handler_A
    \/ PositionBucket
    \/ FetchBucket
    \/ Assemble
    \/ ConcurrentPut
    \/ ConcurrentDelete

SpecRace == InitRace /\ [][NextRace]_vars

(***************************************************************************)
(* clean_item on its own: applied to an item, then to its own result       *)
(***************************************************************************)
\* What a field of an item can hold: a Decimal or float, whole or fractional,
\* positive or negative; an int; a string; None; nothing (the key is absent).
FieldValues ==
    {Num(ty, n, tenths) : ty \in {"Decimal", "float"}, n \in {-2, 4}, tenths \in {0, 5}}
    \cup {Int_(4), Int_(-2), NoneValue, Num("str", 0, 0), Num("absent", 0, 0)}

CleanInputs ==
    {[reviewId |-> 1, randomBucket |-> rb, rating |-> r, age |-> a, department |-> "Tops"] :
        rb \in FieldValues, r \in FieldValues, a \in FieldValues}

InitClean ==
    /\ mode = "clean" /\ env = {} /\ event = NoEvent /\ table = EmptyStore
    /\ pc = "start" /\ http = Pending
    /\ batch_size = 0 /\ rating_filter = "" /\ department_filter = ""
    /\ buckets_to_try = {} /\ bucket = 0
    /\ total_in_bucket = NoCount /\ start_key = NoKey /\ response = Unbound
    /\ \E item \in CleanInputs : all_items = <<item>>
    /\ positive_target = 0 /\ negative_target = 0
    /\ queries = 0 /\ log = [failed |-> FALSE, fetched |-> FALSE]
    /\ csv = <<>> /\ feedback = <<>> /\ SentimentIdle

\* [clean_item(item) for item in ...], on the items as they are now
Clean ==
    /\ mode = "clean" /\ pc \in {"start", "once"}
    /\ all_items' = [i \in DOMAIN all_items |-> clean_item(all_items[i])]
    /\ pc' = IF pc = "start" THEN "once" ELSE "done"
    /\ UNCHANGED <<mode, env, table, http, csv, event, batch_size, rating_filter,
                   department_filter, buckets_to_try, bucket, total_in_bucket, start_key,
                   response, positive_target, negative_target, queries, log, sentimentVars>>

SpecClean == InitClean /\ [][Clean]_vars

\* The end-to-end scenarios: a request of batchSize 10 without filters against
\* stores of at least 10 rows in at least 3 buckets,
StoresC4 == {StoreOf(12, 3, 0), StoreOf(10, 3, 0), StoreOf(10, 10, 0), StoreOf(20, 5, 0)}
InitC4 == InitSampler(StoresC4, {Post(10, "all", "all")}, {RequiredVars})
SpecC4 == InitC4 /\ [][NextSampler]_vars

\* and a request of batchSize 20 for positive reviews against stores of 10 rows,
\* 5 of them positive, in 2, 3 and 5 buckets.
StoresC5 == {StoreOf(10, 2, 0), StoreOf(10, 3, 0), StoreOf(10, 5, 0)}
InitC5 == InitSampler(StoresC5, {Post(20, "positive", "all")}, {RequiredVars})
SpecC5 == InitC5 /\ [][NextSampler]_vars

(***************************************************************************)
(* Properties                                                              *)
(***************************************************************************)
Sampling == mode \in {"A", "C"}
\* The request ended with the sample of get_random_reviews.
Sampled == Sampling /\ pc = "done" /\ http.body.kind = "reviews"
Reviews == http.body.reviews
Count(s, Test(_)) == Len(SelectSeq(s, Test))
Occurrences(s, x) == Cardinality({i \in DOMAIN s : s[i] = x})

\* C1: every review a sampler returns satisfies the requested filters: positive
\* means rating >= 4, negative means rating < 4, a department other than 'all'
\* means that department.
C1_FiltersHold ==
    Sampled =>
        \A i \in DOMAIN Reviews :
            /\ (rating_filter = "positive" => Reviews[i].rating.v >= 4)
            /\ (rating_filter = "negative" => Reviews[i].rating.v < 4)
            /\ (department_filter # "all" => Reviews[i].department = department_filter)

\* A sample under both filters, from a store that also holds rows of the other
\* rating class and of the other department.
C1_Witness ==
    /\ Sampled /\ Len(Reviews) > 0
    /\ rating_filter = "positive" /\ department_filter = "Tops"
    /\ \E r \in StoredRows(table) : r.rating < 4
    /\ \E r \in StoredRows(table) : r.department # "Tops"

\* C2: the final shuffle-and-truncate returns exactly min(batchSize, accumulated)
\* reviews, each one of the accumulated items, none more often than accumulated.
C2_ShuffleTruncate ==
    Sampled =>
        /\ batch_size \in 0..MaxBatch
        /\ Len(Reviews) = Min(batch_size, Len(all_items))
        /\ \A i \in DOMAIN Reviews :
             /\ \E j \in DOMAIN all_items : Reviews[i] = clean_item(all_items[j])
             /\ Occurrences(Reviews, Reviews[i])
                  <= Occurrences([j \in DOMAIN all_items |-> clean_item(all_items[j])],
                                 Reviews[i])

\* A sample cut down to batchSize, and one that keeps everything accumulated.
C2_Witness == Sampled /\ batch_size > 0 /\ Len(all_items) > batch_size

\* Rows of rating class rf that the queries of the buckets S return.
RECURSIVE ReadOfClass(_, _)
ReadOfClass(S, rf) ==
    IF S = {} THEN 0
    ELSE LET b == CHOOSE y \in S : TRUE
             items == TableQuery(b, query_params_C).Items
         IN  (IF rf = "positive" THEN Count(items, IsPositive) ELSE Count(items, IsNegative))
             + ReadOfClass(S \ {b}, rf)

Abs(n) == IF n < 0 THEN 0 - n ELSE n
PositiveGoal == batch_size - (batch_size \div 2)
NegativeGoal == batch_size \div 2
Positives == Count(Reviews, IsPositive)
Negatives == Count(Reviews, IsNegative)
\* Twice the distance of n from batchSize / 2 is at most 2.
NearHalf(n) == Abs(2 * n - batch_size) <= 2

\* Rows of the whole store that match the department filter, by rating class.
StorePositives ==
    Cardinality({r \in StoredRows(table) :
                   MatchesFilter(r, "positive", department_filter)})
StoreNegatives ==
    Cardinality({r \in StoredRows(table) :
                   MatchesFilter(r, "negative", department_filter)})
\* Rows the queries of the buckets this invocation took return, by rating class.
ReadPositives == ReadOfClass(buckets_to_try, "positive")
ReadNegatives == ReadOfClass(buckets_to_try, "negative")

BalancedRun == mode = "C" /\ Sampled /\ rating_filter = "all"

\* C3 as stated: with ratingFilter = 'all' and enough matching rows of both rating
\* classes in the store, the ratio-balanced sample has batchSize reviews and its
\* positive and negative counts are each within 1 of batchSize / 2 (stated here
\* for the runs in which no store query fails).
C3_Original ==
    (/\ BalancedRun /\ ~log.failed
     /\ StorePositives >= PositiveGoal /\ StoreNegatives >= NegativeGoal) =>
        /\ Len(Reviews) = batch_size
        /\ NearHalf(Positives) /\ NearHalf(Negatives)

\* C3 amended: the sample never exceeds the target of a class; when no bucket query
\* failed and the rows the queries of the buckets taken return hold enough of both
\* classes, it has batchSize reviews split batchSize - batchSize//2 : batchSize//2.
C3_Balanced ==
    BalancedRun =>
        /\ Positives <= PositiveGoal /\ Negatives <= NegativeGoal
        /\ (~log.failed /\ ReadPositives >= PositiveGoal /\ ReadNegatives >= NegativeGoal) =>
              /\ Len(Reviews) = batch_size
              /\ Positives = PositiveGoal /\ Negatives = NegativeGoal
              /\ NearHalf(Positives) /\ NearHalf(Negatives)

\* A balanced sample of an odd batchSize gathered from more than one bucket.
C3_Witness ==
    /\ BalancedRun /\ ~log.failed /\ batch_size = 3
    /\ ReadPositives >= PositiveGoal /\ ReadNegatives >= NegativeGoal
    /\ Cardinality(buckets_to_try) >= 2
    /\ Len(Reviews) = 3 /\ Positives = 2

Ids(s) == {s[i].reviewId : i \in DOMAIN s}
DistinctIds(s) == \A i, j \in DOMAIN s : i # j => s[i].reviewId # s[j].reviewId
Answered(status) == http.outcome = "response" /\ http.statusCode = status

\* batchSize=10, no filter, a store of at least 10 rows in at least 3 buckets
ScenarioC4 ==
    /\ Sampling /\ pc = "done"
    /\ batch_size = 10 /\ rating_filter = "all" /\ department_filter = "all"
    /\ Cardinality(StoredRows(table)) >= 10
    /\ Cardinality({b \in Buckets : table[b] # <<>>}) >= 3

\* C4 as stated: in that scenario every invocation returns exactly 10 reviews with
\* pairwise distinct reviewId, whichever buckets are picked (stated here for the
\* runs in which no store query fails).
C4_Original ==
    (ScenarioC4 /\ ~log.failed) =>
        /\ Answered(200) /\ Len(Reviews) = 10 /\ DistinctIds(Reviews)

\* C4 amended: in that scenario every invocation answers 200 with at most 10
\* reviews, exactly min(10, rows accumulated from the buckets picked), all of them
\* rows of the store with pairwise distinct reviewId.
C4_AtMostTen ==
    ScenarioC4 =>
        /\ Answered(200)
        /\ Len(Reviews) <= 10 /\ Len(Reviews) = Min(10, Len(all_items))
        /\ DistinctIds(Reviews)
        /\ Ids(Reviews) \subseteq {r.reviewId : r \in StoredRows(table)}

\* An invocation that accumulates more than 10 rows and returns exactly 10.
C4_Witness == ScenarioC4 /\ Len(all_items) > 10 /\ Len(Reviews) = 10

\* The rows of the store with rating >= 4.
StoreMatching == {r \in StoredRows(table) : r.rating >= 4}

\* batchSize=20, ratingFilter=positive, a store with only 5 matching rows
ScenarioC5 ==
    /\ Sampling /\ pc = "done"
    /\ batch_size = 20 /\ rating_filter = "positive" /\ department_filter = "all"
    /\ Cardinality(StoreMatching) = 5

\* C5 as stated: in that scenario every invocation returns exactly those 5 reviews,
\* all with rating >= 4, and HTTP 200, wherever the rows sit (stated here for the
\* runs in which no store query fails).
C5_Original ==
    (ScenarioC5 /\ ~log.failed) =>
        /\ Answered(200) /\ Len(Reviews) = 5
        /\ Ids(Reviews) = {r.reviewId : r \in StoreMatching}
        /\ \A i \in DOMAIN Reviews : Reviews[i].rating.v >= 4

\* C5 amended: in that scenario every invocation answers 200 with at most 5
\* reviews: everything it accumulated, each one of the 5 matching rows, none twice,
\* all with rating >= 4.
C5_AtMostFive ==
    ScenarioC5 =>
        /\ Answered(200) /\ Len(Reviews) <= 5 /\ Len(Reviews) = Len(all_items)
        /\ Ids(Reviews) \subseteq {r.reviewId : r \in StoreMatching}
        /\ DistinctIds(Reviews)
        /\ \A i \in DOMAIN Reviews : Reviews[i].rating.v >= 4

\* An invocation that does return all 5 matching rows.
C5_Witness == ScenarioC5 /\ Len(Reviews) = 5

IsPrefix(s, t) == Len(s) <= Len(t) /\ SubSeq(t, 1, Len(s)) = s
InLoop == Sampling /\ pc \in {"position", "fetch", "query"}

\* C6: a store failure on a per-bucket count or fetch query is never surfaced: no
\* step of the bucket loop answers the request or loses an accumulated item, and
\* a request in which queries failed is answered 200 with a sample of what the
\* other queries supplied, the empty sample when none succeeded.
C6_FailuresRecovered ==
    /\ []((Sampling /\ pc = "done" /\ log.failed) =>
            /\ Answered(200) /\ http.body.kind = "reviews"
            /\ Len(Reviews) = Min(batch_size, Len(all_items))
            /\ (~log.fetched => Reviews = <<>>))
    /\ [][InLoop => (IsPrefix(all_items, all_items') /\ http' = Pending)]_vars

\* Some queries failed, others did not, and the answer carries reviews.
C6_Witness ==
    /\ Sampling /\ pc = "done" /\ log.failed /\ log.fetched
    /\ Answered(200) /\ Len(Reviews) > 0

C8_ConfigurationMissing ==
    (Sampling /\ pc = "done" /\ event.httpMethod = "POST" /\ validate_environment(env) # {}) =>
        (Answered(500) /\ queries = 0)

\* C9: every OPTIONS request is answered with HTTP 200, an empty body and the CORS
\* headers, without any store query, whatever the event and the environment hold.
C9_Preflight ==
    (Sampling /\ pc = "done" /\ event.httpMethod = "OPTIONS") =>
        /\ Answered(200) /\ http.body.kind = "empty" /\ http.headers = CorsHeaders
        /\ queries = 0

\* C10: every review written by the loader or by the sentiment handler carries an
\* integer randomBucket in 1..10.
C10_BucketAssigned ==
    /\ \A r \in StoredRows(table) : r.randomBucket \in 1..NumBuckets
    /\ \A i \in DOMAIN feedbackTable :
          /\ feedbackTable[i].randomBucket.ty = "int"
          /\ feedbackTable[i].randomBucket.v \in 1..NumBuckets

TimedOut == mode = "sentiment" /\ Interrupted \in Range(errors)

\* C11: in the sentiment handler, from the check that finds the remaining time
\* below the threshold on, no review is persisted, indexed or counted as processed,
\* and the request is answered, not with 500, with the count of the reviews
\* processed so far and the annotation of the interruption among its errors.
C11_TimeoutStopsBatch ==
    /\ []((TimedOut /\ pc = "done") =>
            /\ http.outcome = "response" /\ http.statusCode = 207
            /\ http.body.processedCount = Len(processed_reviews)
            /\ Interrupted \in Range(http.body.errors))
    /\ [][TimedOut' => UNCHANGED <<feedbackTable, esIndex, processed_reviews>>]_vars

\* A batch interrupted after its first review was processed.
C11_Witness ==
    /\ TimedOut /\ pc = "done" /\ Len(processed_reviews) = 1
    /\ http.statusCode = 207 /\ http.body.processedCount = 1

IntegerFields == {"age", "rating", "randomBucket"}

\* C12: clean_item is idempotent: applied to its own result it changes nothing;
\* and applied to any item it leaves reviewId and department as they are, and
\* each of age, rating, randomBucket that is already an int.
C12_CleanIdempotent ==
    [][mode = "clean" =>
          /\ (pc = "once" => all_items' = all_items)
          /\ \A i \in DOMAIN all_items :
                /\ all_items'[i].reviewId = all_items[i].reviewId
                /\ all_items'[i].department = all_items[i].department
                /\ \A f \in IntegerFields :
                      all_items[i][f].ty = "int" => all_items'[i][f] = all_items[i][f]]_vars

\* clean_item was applied twice to an item whose age was -1.5 and whose
\* randomBucket is a string.
C12_Witness ==
    /\ mode = "clean" /\ pc = "done"
    /\ all_items[1].age = Int_(-1) /\ all_items[1].randomBucket.ty = "str"

\* The count the index would report for the current bucket as the table is now.
CountNow == TableQuery(bucket, count_params).Count

\* C13: when rows are put into or deleted from the table while lambda/index.py
\* samples it, the bucket loop never answers with an error, and the request ends
\* with HTTP 200 and at most batchSize reviews, no reviewId twice, all of them
\* matching the filters.
C13_BenignRace ==
    /\ []((mode = "A" /\ pc = "done") =>
            /\ Answered(200) /\ http.body.kind = "reviews"
            /\ Len(Reviews) <= batch_size
            /\ DistinctIds(Reviews)
            /\ \A i \in DOMAIN Reviews :
                  /\ (rating_filter = "positive" => Reviews[i].rating.v >= 4)
                  /\ (rating_filter = "negative" => Reviews[i].rating.v < 4)
                  /\ (department_filter # "all" => Reviews[i].department = department_filter))
    /\ [][(mode = "A" /\ pc \in {"position", "fetch"}) => http' = Pending]_vars

\* Between the count of a bucket and its fetch the table changed: the count in
\* hand is zero and the bucket now holds matching rows, after other buckets
\* supplied items.
C13_Witness ==
    /\ mode = "A" /\ pc = "fetch" /\ total_in_bucket = 0 /\ CountNow > 0
    /\ all_items # <<>>

\* The rows of the current bucket that match the filters of the request, in
\* index order.
BucketMatching ==
    SelectSeq(table[bucket], LAMBDA r : MatchesFilter(r, rating_filter, department_filter))

\* C14: in lambda/index.py the total_in_bucket of a bucket is the number of rows
\* of the bucket that match the filters, whatever the size of the bucket.
C14_CountIsTotal ==
    (mode = "A" /\ pc = "fetch" /\ total_in_bucket # NoCount) =>
        total_in_bucket = Len(BucketMatching)

\* The rows s+1 .. s+P of the matching rows of the current bucket, as items.
Window(s) ==
    LET rows == SubSeq(BucketMatching, s + 1, Min(s + items_per_bucket, Len(BucketMatching)))
    IN  [i \in DOMAIN rows |-> Deserialize(rows[i])]

\* C15: in lambda/index.py, when no query fails, what the fetch of a bucket with T
\* matching rows adds to all_items is rows s+1 .. s+P of its matching rows, P
\* being items_per_bucket, for a skip s in 0 .. max(0, T - P).
C15_FetchAtSkip ==
    [][(mode = "A" /\ pc = "fetch" /\ ~log'.failed) =>
          \E s \in 0..Max(0, Len(BucketMatching) - items_per_bucket) :
              all_items' = all_items \o Window(s)]_vars

\* What a query of the current bucket from its first row with Limit
\* items_per_bucket returns.
FirstRows ==
    Query(table, bucket, rating_filter, department_filter, items_per_bucket, NoKey).Items

C17_StartKeyOfBucket ==
    (mode = "A" /\ pc = "fetch") =>
        \/ start_key = NoKey
        \/ /\ start_key # NoneKey
           /\ start_key.randomBucket = bucket
           /\ \E i \in DOMAIN table[bucket] : KeyOf(table[bucket][i]) = start_key

\* A bucket with matching rows is about to be fetched while `response` still
\* holds the response, with its LastEvaluatedKey, of an earlier bucket's fetch.
C17_Witness ==
    /\ mode = "A" /\ pc = "fetch" /\ total_in_bucket > 0
    /\ response.bound /\ response.LastEvaluatedKey # NoKey
    /\ response.LastEvaluatedKey.randomBucket # bucket
    /\ start_key = NoKey

Balancing == mode = "C" /\ rating_filter = "all" /\ pc \in {"query", "assemble", "done"}

\* What the step added to all_items.
Added == SubSeq(all_items', Len(all_items) + 1, Len(all_items'))

\* The step took from bucket b what lines 83-95 take of it: of each class
\* min(rows of the class in the bucket, remaining target) distinct rows.
TookFrom(b) ==
    LET items == TableQuery(b, query_params_C).Items
    IN  /\ Range(Added) \subseteq Range(items)
        /\ DistinctIds(Added)
        /\ Count(Added, IsPositive) = Min(Count(items, IsPositive), positive_target)
        /\ Count(Added, IsNegative) = Min(Count(items, IsNegative), negative_target)

\* C18: in the ratio-balanced sampler with ratingFilter = 'all', after every
\* bucket and for each rating class, the items of the class accumulated plus the
\* remaining target of the class is the initial target, so the class never
\* exceeds it; and a bucket whose query returns adds of each class exactly
\* min(available in the bucket, remaining target) distinct rows (a bucket whose
\* query raises adds nothing and leaves the targets).
C18_TargetsAccount ==
    /\ [](Balancing =>
            /\ Count(all_items, IsPositive) + positive_target = PositiveGoal
            /\ Count(all_items, IsNegative) + negative_target = NegativeGoal
            /\ Count(all_items, IsPositive) <= PositiveGoal
            /\ Count(all_items, IsNegative) <= NegativeGoal)
    /\ [][(mode = "C" /\ rating_filter = "all" /\ pc = "query") =>
             \E b \in buckets_to_try' \ buckets_to_try :
                \/ TookFrom(b)
                \/ /\ all_items' = all_items
                   /\ positive_target' = positive_target
                   /\ negative_target' = negative_target]_vars

\* After two buckets or more the negative class is full, the positive class has
\* items and is still short.
C18_Witness ==
    /\ Balancing /\ Cardinality(buckets_to_try) >= 2
    /\ negative_target = 0 /\ Count(all_items, IsNegative) > 0
    /\ positive_target > 0 /\ Count(all_items, IsPositive) > 0

\* C19 as stated: in the ratio-balanced sampler no bucket is queried once
\* all_items holds batchSize items or more, for every batchSize from 0 on and
\* every ratingFilter, also after a bucket whose query raised.
C19_Original ==
    [][(mode = "C" /\ queries' > queries) => Len(all_items) < batch_size]_vars

\* C19 amended: a bucket is queried only while all_items holds fewer than
\* batchSize items, also after a bucket whose query raised, except that with
\* batchSize 0 buckets are queried until the first query that returns; and once a
\* query has returned, the loop goes on only with fewer than batchSize items.
C19_StopsWhenFull ==
    /\ []((mode = "C" /\ pc = "query" /\ log.fetched) => Len(all_items) < batch_size)
    /\ [][(mode = "C" /\ queries' > queries) =>
             \/ Len(all_items) < batch_size
             \/ batch_size = 0 /\ ~log.fetched]_vars

\* The loop stopped before its fifth bucket, with batchSize items or more, in a
\* run in which a query raised.
C19_Witness ==
    /\ mode = "C" /\ pc = "assemble" /\ batch_size >= 1
    /\ Cardinality(buckets_to_try) < BucketsC
    /\ log.failed /\ Len(all_items) >= batch_size

\* C20: when the sentiment handler has answered a batch, the reviews in the
\* feedback table, the reviews in the search index and the reviews counted in
\* processedCount are the same, and no review in the table is reported in errors.
C20_StoresAgree ==
    (mode = "sentiment" /\ pc = "done" /\ http.body.kind = "batch") =>
        /\ Ids(feedbackTable) = Ids(esIndex)
        /\ Ids(esIndex) = Ids(processed_reviews)
        /\ Len(feedbackTable) = http.body.processedCount
        /\ \A i \in DOMAIN errors : errors[i].reviewId \notin Ids(feedbackTable)
====
